---------------------------- MODULE Spec2Model ----------------------------
(***************************************************************************)
(* Model of class Enigma (src/Enigma.py): the configuration setters and    *)
(* the encode method of a three-Walzen machine.                            *)
(*                                                                         *)
(* Representation.  A character is its code point (ord), a string is a     *)
(* sequence of code points, so ord and chr are the representation itself.  *)
(* Python indexes from 0 and TLA+ sequences from 1: the Python index k is  *)
(* the position k + 1 here; lex_index, count and position keep their       *)
(* Python values (0-based).  The local list walzen[i] of encode is only    *)
(* ever built by rotating relation_walze (line 198) and rotated by one     *)
(* (lines 269, 274, 279); it is represented by the number of rotations     *)
(* position[i], the list itself being Rotate(RelationWalze(wlz[i]),        *)
(* position[i]).                                                           *)
(***************************************************************************)
EXTENDS Integers, Sequences, FiniteSets, TLC

\* ------------------------------------------------------------------ bounds
\* The alphabet handed to the constructor is the first 2 * HalfAlphabet
\* capital letters ("ABCD").
HalfAlphabet == 2

\* The longest message, counted over two consecutive encode calls.
MaxLen == 2

\* ------------------------------------------------------- program constants
\* ord("A"), subtracted from every code point (lines 195, 197, 206, ...).
OrdA == 65

\* The largest lex_index that is processed (line 207).
MaxLexIndex == 25

\* The modulus of the step counters (lines 270, 275).
CountMod == 26

\* The largest Ringkerbe the setter accepts and randint draws (lines 116, 122).
MaxRingkerbe == 26

\* The number of Walzen (constructor default, line 10; count and the random
\* Ringkerben are lists of three, lines 114 and 190).
num_walzen == 3

AlphaLen == 2 * HalfAlphabet

\* self.__alphabet
alphabet == [k \in 1..AlphaLen |-> OrdA + k - 1]

\* ----------------------------------------------------------- string helpers
\* chr(k + 65)
Chr(k) == OrdA + k

\* c in s
Contains(s, c) == \E k \in DOMAIN s : s[k] = c

\* s.index(c), as a 0-based index (c is in s)
IndexOf(s, c) == (CHOOSE k \in DOMAIN s : s[k] = c /\ \A j \in 1..(k - 1) : s[j] # c) - 1

\* s.replace(c, "")
Replace(s, c) == SelectSeq(s, LAMBDA x : x # c)

\* "".join(list)
RECURSIVE Join(_)
Join(list) == IF list = <<>> THEN <<>> ELSE Head(list) \o Join(Tail(list))

\* s[k:] for a 0-based k
Suffix(s, k) == SubSeq(s, k + 1, Len(s))

\* str.upper() on the characters the model feeds (ASCII)
UpperChar(c) == IF c \in 97..122 THEN c - 32 ELSE c

Upper(s) == [k \in DOMAIN s |-> UpperChar(s[k])]

\* ------------------------------------------------------------ sample inputs
\* The identity wiring, the constructor's default for every Walze and for
\* the Umkehrwalze ("ABCD").
Ident == alphabet

\* "BCDA": a rotation, not an involution.
ShiftW == [k \in 1..AlphaLen |-> Chr(k % AlphaLen)]

\* "BDAC": a shuffle, not an involution.
Scr == [k \in 1..AlphaLen |->
          IF k <= HalfAlphabet THEN Chr(2 * k - 1) ELSE Chr(2 * (k - HalfAlphabet) - 2)]

\* "BCAD": the first three symbols in a cycle, the others in place.
Cyc3 == [k \in 1..AlphaLen |-> IF k <= 2 THEN Chr(k) ELSE IF k = 3 THEN Chr(0) ELSE Chr(k - 1)]

\* "ACDB": the first symbol in place, the others in a cycle.
RestW == [k \in 1..AlphaLen |-> IF k = 1 THEN Chr(0) ELSE IF k = AlphaLen THEN Chr(1) ELSE Chr(k)]

\* "DCBA": an involution without fixed point.
RevW == [k \in 1..AlphaLen |-> Chr(AlphaLen - k)]

\* "BADC": an involution without fixed point.
SwapW == [k \in 1..AlphaLen |-> IF k % 2 = 1 THEN Chr(k) ELSE Chr(k - 2)]

\* "BACD"-like: an involution that fixes every symbol but the first two.
FixW == [k \in 1..AlphaLen |-> IF k = 1 THEN Chr(1) ELSE IF k = 2 THEN Chr(0) ELSE Chr(k - 1)]

\* "ABC": too short; "AACD"-like: right length, the symbol B missing.
ShortW == SubSeq(alphabet, 1, AlphaLen - 1)

DupW == [k \in 1..AlphaLen |-> IF k = 2 THEN Chr(0) ELSE Chr(k - 1)]

LastChar == Chr(AlphaLen - 1)

\* A capital letter outside the alphabet ("Z"), a space, a lower-case letter
\* of the alphabet ("a").
OutsideChar == Chr(MaxLexIndex)

SpaceChar == Chr(0 - 33)

LowerChar == Chr(32)

\* -------------------------------------------------------------------- state
\* The fields of the object, the exception the last call raised ("none" when
\* it returned), and the frame of the encode call in progress.
VARIABLES
    walzen,           \* self.__walzen: one wiring per Walze
    umkehrwalze,      \* self.__umkehrwalze
    steckerbrett,     \* self.__steckerbrett: a list of strings
    ringkerben,       \* self.__ringkerben
    base,             \* self.__base
    raised,           \* "none", or the exception that ended the last call
    pc,               \* "idle" (no encode call yet), "loop" (encode runs
                      \* its for loop) or "done" (the call has ended)
    msg,              \* the argument of the current or last encode call
    char_list,        \* list(msg.upper()), line 184
    idx,              \* the 0-based index of the next element of char_list
    position,         \* the rotation of each local list walzen[i]
    count,            \* the local list count
    encoded_message,  \* the local string encoded_message
    result,           \* what the last encode call returned
    prev              \* <<>> or the one completed encode call before this one

config == <<walzen, umkehrwalze, steckerbrett, ringkerben, base>>

frame == <<pc, msg, char_list, idx, position, count, encoded_message, result, prev>>

vars == <<walzen, umkehrwalze, steckerbrett, ringkerben, base, raised,
          pc, msg, char_list, idx, position, count, encoded_message, result, prev>>

\* ------------------------------------------------------------- constructor
\* Enigma(3, random=False, alphabet): lines 10-17.  No encode call has been
\* made: the frame is empty.
InitFields ==
    /\ base = [i \in 1..num_walzen |-> alphabet[1]]
    /\ walzen = [i \in 1..num_walzen |-> alphabet]
    /\ umkehrwalze = alphabet
    /\ steckerbrett = <<>>
    /\ ringkerben = [i \in 1..num_walzen |-> Len(alphabet)]

InitFrame ==
    /\ raised = "none"
    /\ pc = "idle"
    /\ msg = <<>>
    /\ char_list = <<>>
    /\ idx = 0
    /\ position = [i \in 1..num_walzen |-> 0]
    /\ count = [i \in 1..num_walzen |-> 0]
    /\ encoded_message = <<>>
    /\ result = <<>>
    /\ prev = <<>>

InitSet == InitFields /\ InitFrame

\* ------------------------------------------------------------------ setters
\* The check of set_walze, lines 38-42: the lengths agree and every symbol
\* of the alphabet occurs.
WalzeCheck(walze) ==
    /\ Len(alphabet) = Len(walze)
    /\ \A k \in DOMAIN alphabet : Contains(walze, alphabet[k])

\* set_walze(num, walze) with a walze given: lines 36-43.
WalzeArgs == {Scr, ShortW, DupW}

set_walze(num, walze) ==
    /\ pc # "loop"
    /\ IF WalzeCheck(walze)
         THEN walzen' = [walzen EXCEPT ![num + 1] = walze] /\ raised' = "none"
         ELSE raised' = "InputError" /\ UNCHANGED walzen
    /\ UNCHANGED <<umkehrwalze, steckerbrett, ringkerben, base, frame>>

\* set_walze(num): random.sample(alphabet, len(alphabet)) returns any
\* permutation of the alphabet (lines 33-35, 43); the model draws it from a
\* sample of them.
RandomWalzeOutcomes == {Scr}

set_walze_random(num, walze) ==
    /\ pc # "loop"
    /\ walzen' = [walzen EXCEPT ![num + 1] = walze]
    /\ raised' = "none"
    /\ UNCHANGED <<umkehrwalze, steckerbrett, ringkerben, base, frame>>

\* The check of set_umkehrwalze, lines 68-75.  The third loop compares each
\* symbol of walze with the alphabet's symbol at that symbol's own index.
UmkehrwalzeCheck(walze) ==
    /\ Len(alphabet) = Len(walze)
    /\ \A k \in DOMAIN alphabet : Contains(walze, alphabet[k])
    /\ \A k \in DOMAIN walze : alphabet[IndexOf(alphabet, walze[k]) + 1] = walze[k]

UmkehrwalzeArgs == {RevW, FixW, ShiftW, Ident, ShortW, DupW}

set_umkehrwalze(walze) ==
    /\ pc # "loop"
    /\ IF UmkehrwalzeCheck(walze)
         THEN umkehrwalze' = walze /\ raised' = "none"
         ELSE raised' = "InputError" /\ UNCHANGED umkehrwalze
    /\ UNCHANGED <<walzen, steckerbrett, ringkerben, base, frame>>

\* random.sample(residual, 2): two symbols at distinct places, in any order.
Sample2(residual) ==
    {<<residual[p[1]], residual[p[2]]>> :
        p \in {q \in (DOMAIN residual) \X (DOMAIN residual) : q[1] # q[2]}}

\* The loop of lines 57-64: every string it can leave in uncle_walter.
RECURSIVE UmkehrwalzeOutcomes(_, _)
UmkehrwalzeOutcomes(residual, uncle_walter) ==
    IF residual = <<>>
      THEN {uncle_walter}
      ELSE UNION { UmkehrwalzeOutcomes(
                       Replace(Replace(residual, tupl[1]), tupl[2]),
                       [uncle_walter EXCEPT ![IndexOf(alphabet, tupl[1]) + 1] = tupl[2],
                                            ![IndexOf(alphabet, tupl[2]) + 1] = tupl[1]])
                   : tupl \in Sample2(residual) }

RandomUmkehrwalzen == UmkehrwalzeOutcomes(alphabet, alphabet)

\* set_umkehrwalze(): lines 53-65.
set_umkehrwalze_random(walze) ==
    /\ pc # "loop"
    /\ umkehrwalze' = walze
    /\ raised' = "none"
    /\ UNCHANGED <<walzen, steckerbrett, ringkerben, base, frame>>

\* The check of set_steckerbrett, lines 98-101: every symbol of the joined
\* pairs is in the alphabet and does not occur again further right.
SteckerbrettCheck(stb) ==
    LET sb == Join(stb)
    IN  \A k \in DOMAIN sb : Contains(alphabet, sb[k]) /\ ~Contains(Suffix(sb, k), sb[k])

\* [], ["AC"], overlapping ["AB", "BC"], unknown symbol ["AZ"], and ["ABC"],
\* which is no pair.
SteckerbrettArgs ==
    { <<>>,
      << <<Chr(0), Chr(2)>> >>,
      << <<Chr(0), Chr(1)>>, <<Chr(1), Chr(2)>> >>,
      << <<Chr(0), OutsideChar>> >>,
      << <<Chr(0), Chr(1), Chr(2)>> >> }

set_steckerbrett(stb) ==
    /\ pc # "loop"
    /\ IF SteckerbrettCheck(stb)
         THEN steckerbrett' = stb /\ raised' = "none"
         ELSE raised' = "InputError" /\ UNCHANGED steckerbrett
    /\ UNCHANGED <<walzen, umkehrwalze, ringkerben, base, frame>>

\* The loop of lines 91-95: every list it can leave in steckerbrett.
RECURSIVE SteckerbrettOutcomes(_, _, _)
SteckerbrettOutcomes(residual, stb, number) ==
    IF residual # <<>> /\ Len(stb) < number
      THEN UNION { SteckerbrettOutcomes(
                       Replace(Replace(residual, tupl[1]), tupl[2]),
                       Append(stb, tupl), number)
                   : tupl \in Sample2(residual) }
      ELSE {stb}

\* set_steckerbrett(number=number): lines 87-95, 102.
NumberArgs == {1}

\* The model draws from the outcomes whose first pair starts with the first
\* symbol of the alphabet.
RandomSteckerbretter ==
    [number \in NumberArgs |->
        {stb \in SteckerbrettOutcomes(alphabet, <<>>, number) :
            stb = <<>> \/ stb[1][1] = alphabet[1]}]

set_steckerbrett_random(number, stb) ==
    /\ pc # "loop"
    /\ steckerbrett' = stb
    /\ raised' = "none"
    /\ UNCHANGED <<walzen, umkehrwalze, ringkerben, base, frame>>

\* The check of set_ringkerben, lines 119-123.
RingkerbenCheck_NoUpper(rk) ==
    /\ Len(rk) = num_walzen
    /\ \A k \in DOMAIN rk : ~(rk[k] < 1)

RingkerbenCheck(rk) ==
    /\ Len(rk) = num_walzen
    /\ \A k \in DOMAIN rk : ~(rk[k] < 1 \/ rk[k] > MaxRingkerbe)

\* Lists of the right length with a value below, inside and above the
\* alphabet size and above 26, a list of two, and the empty list, which the
\* code takes for "no list given".
RingkerbenArgs ==
    { <<2, 1, 1>>,
      <<AlphaLen + 1, 1, 1>>,
      <<0, 1, 1>>,
      <<1, 1, MaxRingkerbe + 1>>,
      <<1, 1>>,
      <<>> }

\* random.randint(1, 26), line 116: the model draws from a sample of the range.
RandintOutcomes == {1, MaxRingkerbe}

\* Lines 114-116: rk = [0, 0, 0], then one draw for each Walze.
RandomRingkerben == [1..3 -> RandintOutcomes]

\* set_ringkerben(rk): lines 112-124.  rk == [] is the random branch.
set_ringkerben(rk) ==
    /\ pc # "loop"
    /\ IF rk = <<>>
         THEN ringkerben' \in RandomRingkerben /\ raised' = "none"
         ELSE IF RingkerbenCheck(rk)
                THEN ringkerben' = rk /\ raised' = "none"
                ELSE raised' = "InputError" /\ UNCHANGED ringkerben
    /\ UNCHANGED <<walzen, umkehrwalze, steckerbrett, base, frame>>

\* The check of set_base, lines 135-139.
BaseCheck(b) ==
    /\ Len(b) = num_walzen
    /\ \A k \in DOMAIN b : Contains(alphabet, b[k])

\* "DAB", "AA" (too short), "AZA" (unknown symbol).
BaseArgs ==
    { <<LastChar, Chr(0), Chr(1)>>,
      <<Chr(0), Chr(0)>>,
      <<Chr(0), OutsideChar, Chr(0)>> }

set_base(b) ==
    /\ pc # "loop"
    /\ IF BaseCheck(b)
         THEN base' = b /\ raised' = "none"
         ELSE raised' = "InputError" /\ UNCHANGED base
    /\ UNCHANGED <<walzen, umkehrwalze, steckerbrett, ringkerben, frame>>

SetWalze == \E num \in 0..(num_walzen - 1), walze \in WalzeArgs : set_walze(num, walze)

SetWalzeRandom ==
    \E num \in 0..(num_walzen - 1), walze \in RandomWalzeOutcomes : set_walze_random(num, walze)

SetUmkehrwalze == \E walze \in UmkehrwalzeArgs : set_umkehrwalze(walze)

SetUmkehrwalzeRandom == \E walze \in RandomUmkehrwalzen : set_umkehrwalze_random(walze)

SetSteckerbrett == \E stb \in SteckerbrettArgs : set_steckerbrett(stb)

SetSteckerbrettRandom ==
    \E number \in NumberArgs :
        \E stb \in RandomSteckerbretter[number] : set_steckerbrett_random(number, stb)

SetRingkerben == \E rk \in RingkerbenArgs : set_ringkerben(rk)

SetBase == \E b \in BaseArgs : set_base(b)

NextSet ==
    \/ SetWalze
    \/ SetWalzeRandom
    \/ SetUmkehrwalze
    \/ SetUmkehrwalzeRandom
    \/ SetSteckerbrett
    \/ SetSteckerbrettRandom
    \/ SetRingkerben
    \/ SetBase

\* The setters, called in any order on a newly constructed machine.
SpecSet == InitSet /\ [][NextSet]_vars

\* ------------------------------------------------------------------- encode
\* Lines 193-196: relation_walze, the offset of each letter of the Walze
\* from its own place.
RelationWalze(walze) == [j \in 1..Len(walze) |-> walze[j] - OrdA - (j - 1)]

\* Line 198: list[index:] + list[:index].  Lines 269, 274, 279 are the same
\* rotation with index 1.
Rotate(list, index) == Suffix(list, index) \o SubSeq(list, 1, index)

\* Line 197 and line 199: index = ord(base[i]) - 65, the first rotation of
\* walzen[i] and the first value of count[i].
StartPosition_Persist == position

StartPosition == [i \in 1..num_walzen |-> base[i] - OrdA]

StartCount_NoOffset == [i \in 1..num_walzen |-> base[i]]

StartCount == [i \in 1..num_walzen |-> base[i] - OrdA]

\* Lines 211-212: the letters of one Walze as it stands, from walzen[w] as
\* it is after pos rotations.
WalzeCurr(walze, pos) ==
    LET list == Rotate(RelationWalze(walze), pos)
    IN  [i \in 1..Len(list) |-> Chr((list[i] + (i - 1)) % Len(alphabet))]

\* The for loops of lines 218-224 and 253-258 stop at the first stecker
\* that holds char: its place in sb, or 0.
FirstStecker(sb, char) ==
    IF \E k \in DOMAIN sb : Contains(sb[k], char)
      THEN CHOOSE k \in DOMAIN sb :
               Contains(sb[k], char) /\ \A j \in 1..(k - 1) : ~Contains(sb[j], char)
      ELSE 0

\* Lines 218-224: the input through the Steckerbrett.  ord(new_char) raises
\* TypeError unless new_char is one character.
SteckerIn(sb, char) ==
    LET k == FirstStecker(sb, char)
    IN  IF k = 0
          THEN [raised |-> "none", lex_index |-> char - OrdA]
          ELSE LET new_char == Replace(sb[k], char)
               IN  IF Len(new_char) # 1
                     THEN [raised |-> "TypeError", lex_index |-> char - OrdA]
                     ELSE [raised |-> "none", lex_index |-> new_char[1] - OrdA]

\* Lines 227-229: through the Walzen, first to last.  walze[lex_index]
\* raises IndexError past the end of the Walze (lex_index is never negative).
RECURSIVE Forward(_, _, _)
Forward(w, lex_index, pos) ==
    IF w > num_walzen
      THEN [raised |-> "none", lex_index |-> lex_index]
      ELSE LET walze == WalzeCurr(walzen[w], pos[w])
           IN  IF lex_index < 0 \/ lex_index >= Len(walze)
                 THEN [raised |-> "IndexError", lex_index |-> lex_index]
                 ELSE Forward(w + 1, walze[lex_index + 1] - OrdA, pos)

\* Lines 235-236: the Umkehrwalze, which does not rotate.
Reflect_Through(lex_index) == Chr(lex_index)

Reflect(lex_index) == umkehrwalze[lex_index + 1]

\* Lines 242-245: back through the Walzen, last to first: the place of the
\* letter on the Walze.  walze.index raises ValueError for a letter that is
\* not on the Walze.
RECURSIVE Backward_Forward(_, _, _)
Backward_Forward(w, new_letter, pos) ==
    IF w < 1
      THEN [raised |-> "none", lex_index |-> new_letter - OrdA]
      ELSE LET walze == WalzeCurr(walzen[w], pos[w])
           IN  Backward_Forward(w - 1, walze[(new_letter - OrdA) + 1], pos)

RECURSIVE Backward(_, _, _)
Backward(w, new_letter, pos) ==
    IF w < 1
      THEN [raised |-> "none", lex_index |-> new_letter - OrdA]
      ELSE LET walze == WalzeCurr(walzen[w], pos[w])
           IN  IF ~Contains(walze, new_letter)
                 THEN [raised |-> "ValueError", lex_index |-> 0]
                 ELSE Backward(w - 1, alphabet[IndexOf(walze, new_letter) + 1], pos)

\* Lines 250-258: the output through the Steckerbrett: the stecker without
\* the character, whatever its length.
SteckerOut(sb, lex_index) ==
    LET char == Chr(lex_index)
        k == FirstStecker(sb, char)
    IN  IF k = 0 THEN <<char>> ELSE Replace(sb[k], char)

\* Lines 217-258: what one processed character adds to encoded_message.
Signal(char, pos) ==
    LET s == SteckerIn(steckerbrett, char)
    IN  IF s.raised # "none"
          THEN [raised |-> s.raised, out |-> <<>>]
          ELSE LET f == Forward(1, s.lex_index, pos)
               IN  IF f.raised # "none"
                     THEN [raised |-> f.raised, out |-> <<>>]
                     ELSE LET b == Backward(num_walzen, Reflect(f.lex_index), pos)
                          IN  IF b.raised # "none"
                                THEN [raised |-> b.raised, out |-> <<>>]
                                ELSE [raised |-> "none",
                                      out |-> SteckerOut(steckerbrett, b.lex_index)]

\* Lines 269-279: the first Walze turns; the second turns when the first
\* counter meets its Ringkerbe, and then the third when the second counter
\* meets its own.  count[2] is never written.
Rotation_Flat(pos, cnt) ==
    LET c0 == (cnt[1] % CountMod) + 1
        c1 == (cnt[2] % CountMod) + 1
        turn1 == c0 = ringkerben[1]
        turn2 == c1 = ringkerben[2]
    IN  [position |-> [i \in 1..num_walzen |->
                          IF i = 1 \/ (i = 2 /\ turn1) \/ (i = 3 /\ turn2)
                            THEN (pos[i] + 1) % Len(alphabet) ELSE pos[i]],
         count |-> [i \in 1..num_walzen |->
                          IF i = 1 THEN c0 ELSE IF i = 2 /\ turn1 THEN c1 ELSE cnt[i]]]

Rotation(pos, cnt) ==
    LET c0 == (cnt[1] % CountMod) + 1
        c1 == (cnt[2] % CountMod) + 1
        turn1 == c0 = ringkerben[1]
        turn2 == turn1 /\ c1 = ringkerben[2]
    IN  [position |-> [i \in 1..num_walzen |->
                          IF i = 1 \/ (i = 2 /\ turn1) \/ (i = 3 /\ turn2)
                            THEN (pos[i] + 1) % Len(alphabet) ELSE pos[i]],
         count |-> [i \in 1..num_walzen |->
                          IF i = 1 THEN c0 ELSE IF i = 2 /\ turn1 THEN c1 ELSE cnt[i]]]

\* Line 207: the characters the loop processes.
Processed(char) == char - OrdA >= 0 /\ char - OrdA <= MaxLexIndex

\* Lines 205-279: one turn of the for loop on char, from the rotations pos,
\* the counters cnt and the output so far.  A character outside A..Z changes
\* nothing.
Iteration_StepAlways(char, pos, cnt, out) ==
    IF Processed(char)
      THEN LET s == Signal(char, pos)
               r == Rotation(pos, cnt)
           IN  IF s.raised # "none"
                 THEN [raised |-> s.raised, position |-> pos, count |-> cnt, out |-> out]
                 ELSE [raised |-> "none", position |-> r.position, count |-> r.count,
                       out |-> out \o s.out]
      ELSE LET r == Rotation(pos, cnt)
           IN  [raised |-> "none", position |-> r.position, count |-> r.count, out |-> out]

Iteration_KeepSkipped(char, pos, cnt, out) ==
    IF Processed(char)
      THEN LET s == Signal(char, pos)
               r == Rotation(pos, cnt)
           IN  IF s.raised # "none"
                 THEN [raised |-> s.raised, position |-> pos, count |-> cnt, out |-> out]
                 ELSE [raised |-> "none", position |-> r.position, count |-> r.count,
                       out |-> out \o s.out]
      ELSE [raised |-> "none", position |-> pos, count |-> cnt, out |-> Append(out, char)]

Iteration(char, pos, cnt, out) ==
    IF Processed(char)
      THEN LET s == Signal(char, pos)
               r == Rotation(pos, cnt)
           IN  IF s.raised # "none"
                 THEN [raised |-> s.raised, position |-> pos, count |-> cnt, out |-> out]
                 ELSE [raised |-> "none", position |-> r.position, count |-> r.count,
                       out |-> out \o s.out]
      ELSE [raised |-> "none", position |-> pos, count |-> cnt, out |-> out]

\* Lines 203-282 as a function: the for loop over chars from element i on.
RECURSIVE EncodeLoop(_, _, _, _, _)
EncodeLoop(chars, i, pos, cnt, out) ==
    IF i > Len(chars)
      THEN [raised |-> "none", result |-> out]
      ELSE LET it == Iteration(chars[i], pos, cnt, out)
           IN  IF it.raised # "none"
                 THEN [raised |-> it.raised, result |-> <<>>]
                 ELSE EncodeLoop(chars, i + 1, it.position, it.count, it.out)

\* encode(m) on the machine as it is configured: lines 168-282.
encode(m) == EncodeLoop(Upper(m), 1, StartPosition, StartCount, <<>>)

\* The characters of the messages: "A", "B", "C", the last letter of the
\* alphabet, "Z", " " and "a".
MsgChars == {Chr(0), Chr(1), Chr(2), LastChar, OutsideChar, SpaceChar, LowerChar}

\* The messages of at most len characters.
Messages == [len \in 0..MaxLen |-> UNION {[1..l -> MsgChars] : l \in 0..len}]

\* The characters of the last two calls, as far as the state remembers them.
Used == IF pc = "done"
          THEN Len(msg) + (IF prev = <<>> THEN 0 ELSE Len(prev[1].msg))
          ELSE 0

\* The last call has returned (and has not raised).
Returned == pc = "done" /\ raised = "none"

\* encode(m) up to the for loop: lines 168-203.  The locals are built from
\* the fields; nothing of an earlier call is read.
EncodeCall(m) ==
    /\ pc # "loop"
    /\ prev' = IF Returned THEN <<[msg |-> msg, result |-> result]>> ELSE <<>>
    /\ msg' = m
    /\ char_list' = Upper(m)
    /\ idx' = 0
    /\ position' = StartPosition
    /\ count' = StartCount
    /\ encoded_message' = <<>>
    /\ result' = <<>>
    /\ raised' = "none"
    /\ pc' = "loop"
    /\ UNCHANGED config

\* One turn of the for loop on a character of A..Z: lines 205-279.
EncodeChar ==
    /\ pc = "loop"
    /\ idx < Len(char_list)
    /\ Processed(char_list[idx + 1])
    /\ LET it == Iteration(char_list[idx + 1], position, count, encoded_message)
       IN  /\ it.raised = "none"
           /\ position' = it.position
           /\ count' = it.count
           /\ encoded_message' = it.out
    /\ idx' = idx + 1
    /\ UNCHANGED <<config, raised, pc, msg, char_list, result, prev>>

\* One turn of the for loop on any other character: line 207 is false.
EncodeSkip ==
    /\ pc = "loop"
    /\ idx < Len(char_list)
    /\ ~Processed(char_list[idx + 1])
    /\ LET it == Iteration(char_list[idx + 1], position, count, encoded_message)
       IN  /\ it.raised = "none"
           /\ position' = it.position
           /\ count' = it.count
           /\ encoded_message' = it.out
    /\ idx' = idx + 1
    /\ UNCHANGED <<config, raised, pc, msg, char_list, result, prev>>

\* A turn of the for loop that raises: the exception leaves encode.
EncodeRaise ==
    /\ pc = "loop"
    /\ idx < Len(char_list)
    /\ LET it == Iteration(char_list[idx + 1], position, count, encoded_message)
       IN  /\ it.raised # "none"
           /\ raised' = it.raised
    /\ pc' = "done"
    /\ UNCHANGED <<config, msg, char_list, idx, position, count, encoded_message, result, prev>>

\* Line 282: return encoded_message.
EncodeReturn ==
    /\ pc = "loop"
    /\ idx = Len(char_list)
    /\ result' = encoded_message
    /\ raised' = "none"
    /\ pc' = "done"
    /\ UNCHANGED <<config, msg, char_list, idx, position, count, encoded_message, prev>>

Encode == \E m \in Messages[MaxLen - Used] : EncodeCall(m)

\* A configured machine: every field is the constructor's value or a value
\* its setter stores.
WalzenSamples == { <<Ident, Ident, Ident>>, <<Scr, Cyc3, RestW>> }

UmkehrwalzeSamples == {Ident, RevW}

SteckerbrettSamples ==
    { <<>>,
      << <<Chr(0), Chr(2)>>, <<Chr(1), Chr(3)>> >>,
      << <<Chr(0), Chr(1), Chr(2)>> >> }

RingkerbenSamples ==
    { [i \in 1..num_walzen |-> Len(alphabet)], <<1, 1, 1>> }

BaseSamples == { [i \in 1..num_walzen |-> alphabet[1]], <<LastChar, Chr(0), Chr(1)>> }

Init ==
    /\ walzen \in {ws \in WalzenSamples : \A i \in DOMAIN ws : WalzeCheck(ws[i])}
    /\ umkehrwalze \in {w \in UmkehrwalzeSamples :
                           w = alphabet \/ UmkehrwalzeCheck(w) \/ w \in RandomUmkehrwalzen}
    /\ steckerbrett \in {stb \in SteckerbrettSamples : SteckerbrettCheck(stb)}
    /\ ringkerben \in {rk \in RingkerbenSamples : RingkerbenCheck(rk)}
    /\ base \in {b \in BaseSamples : BaseCheck(b)}
    /\ InitFrame

Next ==
    \/ Encode
    \/ EncodeChar
    \/ EncodeSkip
    \/ EncodeRaise
    \/ EncodeReturn

\* encode calls, one after the other, on a configured machine.
Spec == Init /\ [][Next]_vars

\* ------------------------------------------------------- the claims' words
\* w is a permutation of the alphabet.
IsPermutation(w) ==
    /\ Len(w) = Len(alphabet)
    /\ {w[k] : k \in DOMAIN w} = {alphabet[k] : k \in DOMAIN alphabet}

\* w, read as the map alphabet[k] -> w[k], is its own inverse and moves
\* every symbol.
IsReflector(w) ==
    /\ IsPermutation(w)
    /\ \A k \in DOMAIN w : w[k] # alphabet[k]
    /\ \A k \in DOMAIN w : \A j \in DOMAIN w : w[k] = alphabet[j] => w[j] = alphabet[k]

\* sb is a list of pairs of symbols of the alphabet, no symbol twice.
IsPlugboard(sb) ==
    /\ \A k \in DOMAIN sb : Len(sb[k]) = 2
    /\ \A k \in DOMAIN sb : \A j \in 1..2 : \E a \in DOMAIN alphabet : sb[k][j] = alphabet[a]
    /\ \A k1, k2 \in DOMAIN sb : \A j1, j2 \in 1..2 :
           sb[k1][j1] = sb[k2][j2] => (k1 = k2 /\ j1 = j2)

ValidConfiguration ==
    /\ \A i \in DOMAIN walzen : IsPermutation(walzen[i])
    /\ IsReflector(umkehrwalze)
    /\ IsPlugboard(steckerbrett)

\* Every character of m is a symbol of the alphabet.
InAlphabet(m) == \A k \in DOMAIN m : \E a \in DOMAIN alphabet : m[k] = alphabet[a]

\* The Walzen are not all the identity wiring.
WiredWalzen == \E i \in DOMAIN walzen : walzen[i] # alphabet

\* A turn of the for loop has just been made on a character of A..Z, or on
\* another character.
TurnOnLetter == pc = "loop" /\ idx' = idx + 1 /\ Processed(char_list[idx + 1])

TurnOnOther == pc = "loop" /\ idx' = idx + 1 /\ ~Processed(char_list[idx + 1])

\* m without the characters the loop does not process.
Letters(m) == SelectSeq(m, LAMBDA c : Processed(UpperChar(c)))

\* ------------------------------------------------------------------- claims
\* C1: on a valid configuration, encoding the result of encode(msg) from the
\* same base gives msg back, for every msg made of alphabet symbols.
C1_Involution ==
    (Returned /\ ValidConfiguration /\ InAlphabet(msg))
        => encode(result) = [raised |-> "none", result |-> msg]

C1_Witness ==
    /\ Returned /\ ValidConfiguration /\ InAlphabet(msg)
    /\ WiredWalzen /\ steckerbrett # <<>>
    /\ Len(msg) >= 2 /\ position[3] # StartPosition[3]

\* C2 as stated: the result of encode is as long as its argument.
C2_LengthPreserved ==
    (Returned /\ IsPlugboard(steckerbrett)) => Len(result) = Len(msg)

\* C2 amended: the result has one character for each character of
\* msg.upper() in A..Z; every other character is dropped.
C2_LengthIsLetterCount ==
    (Returned /\ IsPlugboard(steckerbrett))
        => Len(result) = Cardinality({k \in DOMAIN msg : Processed(UpperChar(msg[k]))})

C2_Witness ==
    /\ Returned /\ IsPlugboard(steckerbrett)
    /\ Len(msg) >= 2 /\ Len(result) = 1
    /\ \E k \in DOMAIN msg : msg[k] = SpaceChar

\* C3 as stated: a second encode call continues from the rotor positions
\* the first one reached, so the two results, concatenated, are the result
\* of encoding the concatenated messages.
C3_StatePersists ==
    (Returned /\ prev # <<>> /\ InAlphabet(msg) /\ InAlphabet(prev[1].msg))
        => prev[1].result \o result = encode(prev[1].msg \o msg).result

\* C3 amended: every encode call starts from the base positions, whatever
\* the call before it reached, and returns what a first call returns.
C3_EveryCallStartsAtBase ==
    /\ (pc = "loop" /\ idx = 0)
           => \A i \in 1..num_walzen : position[i] = base[i] - OrdA /\ count[i] = base[i] - OrdA
    /\ (Returned /\ prev # <<>> /\ InAlphabet(msg) /\ InAlphabet(prev[1].msg))
           => result = encode(msg).result

C3_Witness ==
    /\ Returned /\ prev # <<>> /\ InAlphabet(msg) /\ InAlphabet(prev[1].msg)
    /\ Len(prev[1].msg) >= 1 /\ Len(msg) >= 1
    /\ prev[1].result \o result # encode(prev[1].msg \o msg).result

\* C4 as stated: set_umkehrwalze with a wiring that is not a permutation,
\* not an involution or has a fixed point raises and stores nothing.
C4_ReflectorValidated ==
    [][\A walze \in UmkehrwalzeArgs :
          (set_umkehrwalze(walze) /\ ~IsReflector(walze))
              => (raised' = "InputError" /\ umkehrwalze' = umkehrwalze)]_vars

\* C5 as stated: encode raises no error, whatever the message.
C5_EncodeNeverRaises == IsPlugboard(steckerbrett) => raised = "none"

\* C6: a turn of the loop on a character outside A..Z changes no rotor
\* position, no counter and no output, and the result of a message is the
\* result of the message without those characters.
C6_NonAlphabeticNoStep ==
    /\ [][TurnOnOther => (position' = position /\ count' = count
                            /\ encoded_message' = encoded_message)]_vars
    /\ [](Returned => result = encode(Letters(msg)).result)

C6_Witness ==
    /\ Returned /\ WiredWalzen
    /\ Len(msg) >= 2 /\ msg[1] = SpaceChar /\ Len(result) >= 1

\* The list rk has one value for each Walze, each from 1 to top.
RingkerbenWithin(rk, top) ==
    /\ Len(rk) = num_walzen
    /\ \A k \in DOMAIN rk : rk[k] \in 1..top

\* C7 as stated: set_ringkerben rejects a list unless it has one value for
\* each Walze, each from 1 to the size of the alphabet; a random list is such
\* a list.
C7_RingkerbenWithinAlphabet ==
    [][\A rk \in RingkerbenArgs :
          set_ringkerben(rk) =>
              IF rk = <<>>
                THEN RingkerbenWithin(ringkerben', Len(alphabet))
                ELSE ~RingkerbenWithin(rk, Len(alphabet))
                         => (raised' = "InputError" /\ ringkerben' = ringkerben)]_vars

\* C7 amended: the upper bound is 26, whatever the alphabet.
C7_RingkerbenWithin26 ==
    [][\A rk \in RingkerbenArgs :
          set_ringkerben(rk) =>
              IF rk = <<>>
                THEN RingkerbenWithin(ringkerben', MaxRingkerbe)
                ELSE ~RingkerbenWithin(rk, MaxRingkerbe)
                         => (raised' = "InputError" /\ ringkerben' = ringkerben)]_vars

C7_Witness ==
    /\ raised = "none"
    /\ ringkerben[1] > Len(alphabet)
    /\ ringkerben[1] < MaxRingkerbe

\* p is q turned by one place.
Advanced(p, q) == p = (q + 1) % Len(alphabet)

\* C8: on every processed character the first Walze advances by one; the
\* second advances by one if the first counter now equals its Ringkerbe
\* and stays otherwise; the third advances by one if the second advanced
\* and the second counter now equals its Ringkerbe, and stays otherwise.
C8_SteppingCascade ==
    [][TurnOnLetter =>
          /\ Advanced(position'[1], position[1])
          /\ IF count'[1] = ringkerben[1]
               THEN Advanced(position'[2], position[2])
               ELSE position'[2] = position[2]
          /\ IF count'[1] = ringkerben[1] /\ count'[2] = ringkerben[2]
               THEN Advanced(position'[3], position[3])
               ELSE position'[3] = position[3]]_vars

C8_Witness ==
    /\ pc = "loop" /\ idx >= 1
    /\ position[2] # StartPosition[2]
    /\ position[3] = StartPosition[3]

C10_NoSelfEncoding ==
    [][(TurnOnLetter /\ ValidConfiguration) =>
          /\ Len(encoded_message') = Len(encoded_message) + 1
          /\ encoded_message'[Len(encoded_message')] # char_list[idx + 1]]_vars

C10_Witness ==
    /\ pc = "loop" /\ ValidConfiguration /\ WiredWalzen
    /\ idx >= 2 /\ Len(encoded_message) >= 2
    /\ position[2] # StartPosition[2]

=============================================================================
